---- MODULE Spec2Model ----
(***************************************************************************)
(* The score board's App component (src/index.tsx): the Match State        *)
(* (gameState), the Undo Log (history), the pending delayed pot commits     *)
(* (setTimeout callbacks) and the handlers that change them.                *)
(***************************************************************************)
EXTENDS Integers, Sequences, FiniteSets, TLC

VARIABLES
    gameState,   \* useState<GameState>: [players, currentPlayerId]
    history,     \* useState<GameState[]>: the Undo Log, oldest first
    timers,      \* pending setTimeout callbacks of handlePot, in firing order
    mounted,     \* FALSE once an updater has thrown and React has unmounted App
    last,        \* history variable: the handler that ran last, its argument, the state before it
    removed,     \* history variable: the players handleRemovePlayer has taken out
    potRun,      \* history variable: the pots committed for one player since the last foul, select, new game or undo
    sinceNewGame, \* history variable: the Match States that were current since the last new game
    sync,        \* reference store [gs, history, mounted] in which a pot commits when requested
    budget       \* number of handler invocations still explored

vars == <<gameState, history, timers, mounted, last, removed, potRun, sinceNewGame, sync, budget>>

----------------------------------------------------------------------------
(* Bounds of the exploration. *)

\* Handler invocations (timeouts included) explored from a start state.
MaxSteps == 4

\* The same from the full table of eight, where every handler has the most inputs.
FullTableSteps == 2

PotInputs == {1, 7}
FoulInputs == {4, 10}
NameInputs == {"Ann"}

----------------------------------------------------------------------------
(* Program constants. *)

NoRank == 0            \* rank: null
CenturyBreak == 100
MaxPlayers == 8
MinPlayers == 2

BallValues == 1..7

Max2(a, b) == IF a >= b THEN a ELSE b

FOUL_VALUES == {Max2(4, v) : v \in {b \in BallValues : b >= 2}} \cup {10}

----------------------------------------------------------------------------
(* JavaScript helpers. *)

MaxOf(S) == CHOOSE m \in S : \A x \in S : x <= m

\* % of JavaScript: the sign of the result is the sign of the dividend.
JsRem(a, n) == IF a >= 0 THEN a % n ELSE 0 - ((0 - a) % n)

\* Array.prototype.findIndex(p => p.id === id): 0-based, -1 when absent.
FindIndex(ps, id) ==
    IF \E i \in 1..Len(ps) : ps[i].id = id
    THEN (CHOOSE i \in 1..Len(ps) :
             /\ ps[i].id = id
             /\ \A j \in 1..(i - 1) : ps[j].id # id) - 1
    ELSE -1

HasPlayer(ps, id) == FindIndex(ps, id) # -1

\* ps[i] of JavaScript, i 0-based.
At(ps, i) == ps[i + 1]

DefaultName(id) == "Player " \o ToString(id)

NewPlayer(id) ==
    [id |-> id, name |-> DefaultName(id), score |-> 0, break |-> 0, rank |-> NoRank]

initialGameState ==
    [players |-> <<NewPlayer(1), NewPlayer(2)>>, currentPlayerId |-> 1]

----------------------------------------------------------------------------
(* The state updaters passed to setGameState. *)

\* handlePot's updater handing out rank 1 each time.
PotUpdaterRankOne(prev, points) ==
    IF ~HasPlayer(prev.players, prev.currentPlayerId)
    THEN prev
    ELSE
      LET currentPlayer == At(prev.players, FindIndex(prev.players, prev.currentPlayerId))
          newBreak == currentPlayer.break + points
          newRankForPlayer ==
              IF newBreak >= CenturyBreak /\ currentPlayer.rank = NoRank
              THEN 1
              ELSE NoRank
      IN [prev EXCEPT !.players =
              [i \in 1..Len(prev.players) |->
                  LET p == prev.players[i] IN
                  IF p.id = prev.currentPlayerId
                  THEN [p EXCEPT !.score = p.score + points,
                                 !.break = newBreak,
                                 !.rank = IF p.rank # NoRank THEN p.rank
                                          ELSE newRankForPlayer]
                  ELSE p]]

\* handlePot's updater with rank: newRankForPlayer in place of
\* rank: p.rank || newRankForPlayer.
PotUpdaterDropsRank(prev, points) ==
    IF ~HasPlayer(prev.players, prev.currentPlayerId)
    THEN prev
    ELSE
      LET currentPlayer == At(prev.players, FindIndex(prev.players, prev.currentPlayerId))
          newBreak == currentPlayer.break + points
          existingRanks ==
              {prev.players[i].rank : i \in 1..Len(prev.players)} \ {NoRank}
          newRankForPlayer ==
              IF newBreak >= CenturyBreak /\ currentPlayer.rank = NoRank
              THEN IF existingRanks # {} THEN MaxOf(existingRanks) + 1 ELSE 1
              ELSE NoRank
      IN [prev EXCEPT !.players =
              [i \in 1..Len(prev.players) |->
                  LET p == prev.players[i] IN
                  IF p.id = prev.currentPlayerId
                  THEN [p EXCEPT !.score = p.score + points,
                                 !.break = newBreak,
                                 !.rank = newRankForPlayer]
                  ELSE p]]

\* handlePot's updater with the points left out of the break.
PotUpdaterStaleBreak(prev, points) ==
    IF ~HasPlayer(prev.players, prev.currentPlayerId)
    THEN prev
    ELSE
      LET currentPlayer == At(prev.players, FindIndex(prev.players, prev.currentPlayerId))
          newBreak == points
          existingRanks ==
              {prev.players[i].rank : i \in 1..Len(prev.players)} \ {NoRank}
          newRankForPlayer ==
              IF newBreak >= CenturyBreak /\ currentPlayer.rank = NoRank
              THEN IF existingRanks # {} THEN MaxOf(existingRanks) + 1 ELSE 1
              ELSE NoRank
      IN [prev EXCEPT !.players =
              [i \in 1..Len(prev.players) |->
                  LET p == prev.players[i] IN
                  IF p.id = prev.currentPlayerId
                  THEN [p EXCEPT !.score = p.score + points,
                                 !.break = newBreak,
                                 !.rank = IF p.rank # NoRank THEN p.rank
                                          ELSE newRankForPlayer]
                  ELSE p]]

\* handlePot's updater with > 100 for the century.
PotUpdaterAbove100(prev, points) ==
    IF ~HasPlayer(prev.players, prev.currentPlayerId)
    THEN prev
    ELSE
      LET currentPlayer == At(prev.players, FindIndex(prev.players, prev.currentPlayerId))
          newBreak == currentPlayer.break + points
          existingRanks ==
              {prev.players[i].rank : i \in 1..Len(prev.players)} \ {NoRank}
          newRankForPlayer ==
              IF newBreak > CenturyBreak /\ currentPlayer.rank = NoRank
              THEN IF existingRanks # {} THEN MaxOf(existingRanks) + 1 ELSE 1
              ELSE NoRank
      IN [prev EXCEPT !.players =
              [i \in 1..Len(prev.players) |->
                  LET p == prev.players[i] IN
                  IF p.id = prev.currentPlayerId
                  THEN [p EXCEPT !.score = p.score + points,
                                 !.break = newBreak,
                                 !.rank = IF p.rank # NoRank THEN p.rank
                                          ELSE newRankForPlayer]
                  ELSE p]]

\* handlePot's updater.
PotUpdater(prev, points) ==
    IF ~HasPlayer(prev.players, prev.currentPlayerId)
    THEN prev
    ELSE
      LET currentPlayer == At(prev.players, FindIndex(prev.players, prev.currentPlayerId))
          newBreak == currentPlayer.break + points
          existingRanks ==
              {prev.players[i].rank : i \in 1..Len(prev.players)} \ {NoRank}
          newRankForPlayer ==
              IF newBreak >= CenturyBreak /\ currentPlayer.rank = NoRank
              THEN IF existingRanks # {} THEN MaxOf(existingRanks) + 1 ELSE 1
              ELSE NoRank
          updatedPlayers ==
              [i \in 1..Len(prev.players) |->
                  LET p == prev.players[i] IN
                  IF p.id = prev.currentPlayerId
                  THEN [p EXCEPT !.score = p.score + points,
                                 !.break = newBreak,
                                 !.rank = IF p.rank # NoRank THEN p.rank
                                          ELSE newRankForPlayer]
                  ELSE p]
      IN [prev EXCEPT !.players = updatedPlayers]

\* handleFoul's updater without the wrap to the first player.
FoulUpdaterNoWrap(prev, foulValue) ==
    LET currentPlayerIndex == FindIndex(prev.players, prev.currentPlayerId)
        nextPlayerIndex == IF currentPlayerIndex + 1 < Len(prev.players)
                           THEN currentPlayerIndex + 1
                           ELSE currentPlayerIndex
        nextPlayerId == At(prev.players, nextPlayerIndex).id
    IN [prev EXCEPT !.players =
            [i \in 1..Len(prev.players) |->
                LET p == prev.players[i] IN
                IF p.id = nextPlayerId
                THEN [p EXCEPT !.score = p.score + foulValue]
                ELSE IF p.id = prev.currentPlayerId
                     THEN [p EXCEPT !.break = 0]
                     ELSE p]]

\* handleFoul's updater taking the points from the player at the table.
FoulUpdaterDeducts(prev, foulValue) ==
    [prev EXCEPT !.players =
        [i \in 1..Len(prev.players) |->
            LET p == prev.players[i] IN
            IF p.id = prev.currentPlayerId
            THEN [p EXCEPT !.score = p.score - foulValue, !.break = 0]
            ELSE p]]

\* handleFoul's updater.
FoulUpdater(prev, foulValue) ==
    LET currentPlayerIndex == FindIndex(prev.players, prev.currentPlayerId)
        nextPlayerIndex == JsRem(currentPlayerIndex + 1, Len(prev.players))
        nextPlayerId == At(prev.players, nextPlayerIndex).id
        updatedPlayers ==
            [i \in 1..Len(prev.players) |->
                LET p == prev.players[i] IN
                IF p.id = nextPlayerId
                THEN [p EXCEPT !.score = p.score + foulValue]
                ELSE IF p.id = prev.currentPlayerId
                     THEN [p EXCEPT !.break = 0]
                     ELSE p]
    IN [prev EXCEPT !.players = updatedPlayers]

\* handlePlayerSelect's updater without the reset of the break.
SelectUpdaterKeepsBreak(prev, selectedPlayerId) ==
    [players |-> prev.players, currentPlayerId |-> selectedPlayerId]

\* handlePlayerSelect's updater.
SelectUpdater(prev, selectedPlayerId) ==
    LET playersWithResetBreak ==
            [i \in 1..Len(prev.players) |->
                LET p == prev.players[i] IN
                IF p.id = prev.currentPlayerId THEN [p EXCEPT !.break = 0] ELSE p]
    IN [players |-> playersWithResetBreak, currentPlayerId |-> selectedPlayerId]

\* handleNewGame's updater leaving the turn where it is.
NewGameUpdaterKeepsTurn(prev) ==
    [prev EXCEPT !.players =
        [i \in 1..Len(prev.players) |->
            [prev.players[i] EXCEPT !.score = 0, !.break = 0, !.rank = NoRank]]]

\* handleNewGame's updater.
NewGameUpdater(prev) ==
    LET resetPlayers ==
            [i \in 1..Len(prev.players) |->
                [prev.players[i] EXCEPT !.score = 0, !.break = 0, !.rank = NoRank]]
    IN [players |-> resetPlayers,
        currentPlayerId |-> IF Len(prev.players) > 0 THEN At(prev.players, 0).id ELSE 1]

\* handleAddPlayer's updater.
AddUpdater(prev) ==
    LET newId == IF Len(prev.players) > 0
                 THEN MaxOf({prev.players[i].id : i \in 1..Len(prev.players)}) + 1
                 ELSE 1
    IN [prev EXCEPT !.players = Append(prev.players, NewPlayer(newId))]

\* handleRemovePlayer's updater reads newPlayers[-1].id, a TypeError, when the
\* id to remove is the current one and no player has it.
RemoveThrows(prev, idToRemove) ==
    /\ prev.currentPlayerId = idToRemove
    /\ JsRem(FindIndex(prev.players, idToRemove),
             Len(SelectSeq(prev.players, LAMBDA p : p.id # idToRemove))) < 0

\* handleRemovePlayer's updater passing the turn to the index after the one
\* that was removed.
RemoveUpdaterSkipsOne(prev, idToRemove) ==
    LET playerToRemoveIndex == FindIndex(prev.players, idToRemove)
        newPlayers == SelectSeq(prev.players, LAMBDA p : p.id # idToRemove)
        newCurrentPlayerId ==
            IF prev.currentPlayerId = idToRemove
            THEN At(newPlayers, JsRem(playerToRemoveIndex + 1, Len(newPlayers))).id
            ELSE prev.currentPlayerId
    IN [players |-> newPlayers, currentPlayerId |-> newCurrentPlayerId]

\* handleRemovePlayer's updater (where it does not throw).
RemoveUpdater(prev, idToRemove) ==
    LET playerToRemoveIndex == FindIndex(prev.players, idToRemove)
        newPlayers == SelectSeq(prev.players, LAMBDA p : p.id # idToRemove)
        newCurrentPlayerId ==
            IF prev.currentPlayerId = idToRemove
            THEN At(newPlayers, JsRem(playerToRemoveIndex, Len(newPlayers))).id
            ELSE prev.currentPlayerId
    IN [players |-> newPlayers, currentPlayerId |-> newCurrentPlayerId]

\* handleNameChange's updater.
NameUpdater(prev, id, newName) ==
    [prev EXCEPT !.players =
        [i \in 1..Len(prev.players) |->
            LET p == prev.players[i] IN
            IF p.id = id THEN [p EXCEPT !.name = newName] ELSE p]]

----------------------------------------------------------------------------
(* The handlers, as functions of the store [gs, history, mounted] they run  *)
(* on.  saveToHistory appends the gameState of the render the handler was  *)
(* created in, which for a handler run from an event is st.gs.             *)

saveToHistory(hist, closureGameState) == Append(hist, closureGameState)

FoulResult(st, foulValue) ==
    [st EXCEPT !.history = saveToHistory(st.history, st.gs),
               !.gs = FoulUpdater(st.gs, foulValue)]

SelectResult(st, selectedPlayerId) ==
    IF selectedPlayerId = st.gs.currentPlayerId
    THEN st
    ELSE [st EXCEPT !.history = saveToHistory(st.history, st.gs),
                    !.gs = SelectUpdater(st.gs, selectedPlayerId)]

\* handleUndo without setHistory.
UndoResultKeepsLog(st) ==
    IF Len(st.history) > 0
    THEN [st EXCEPT !.gs = st.history[Len(st.history)]]
    ELSE st

UndoResult(st) ==
    IF Len(st.history) > 0
    THEN [st EXCEPT !.gs = st.history[Len(st.history)],
                    !.history = SubSeq(st.history, 1, Len(st.history) - 1)]
    ELSE st

\* handleNewGame without setHistory([]).
NewGameResultKeepsLog(st) ==
    [st EXCEPT !.gs = NewGameUpdater(st.gs)]

NewGameResult(st) ==
    [st EXCEPT !.history = <<>>, !.gs = NewGameUpdater(st.gs)]

\* handleAddPlayer with the limit off by one.
AddResultOffByOne(st) ==
    IF Len(st.gs.players) > MaxPlayers
    THEN st
    ELSE [st EXCEPT !.history = saveToHistory(st.history, st.gs),
                    !.gs = AddUpdater(st.gs)]

AddResult(st) ==
    IF Len(st.gs.players) >= MaxPlayers
    THEN st
    ELSE [st EXCEPT !.history = saveToHistory(st.history, st.gs),
                    !.gs = AddUpdater(st.gs)]

\* handleRemovePlayer with the limit off by one.
RemoveResultOffByOne(st, idToRemove) ==
    IF Len(st.gs.players) < MinPlayers
    THEN st
    ELSE IF RemoveThrows(st.gs, idToRemove)
         THEN [st EXCEPT !.mounted = FALSE]
         ELSE [st EXCEPT !.history = saveToHistory(st.history, st.gs),
                         !.gs = RemoveUpdater(st.gs, idToRemove)]

RemoveResult(st, idToRemove) ==
    IF Len(st.gs.players) <= MinPlayers
    THEN st
    ELSE IF RemoveThrows(st.gs, idToRemove)
         THEN [st EXCEPT !.mounted = FALSE]
         ELSE [st EXCEPT !.history = saveToHistory(st.history, st.gs),
                         !.gs = RemoveUpdater(st.gs, idToRemove)]

NameChangeResult(st, id, newName) ==
    [st EXCEPT !.history = saveToHistory(st.history, st.gs),
               !.gs = NameUpdater(st.gs, id, newName)]

\* document.querySelector('.player-panel.active .player-score') finds an element.
ActivePanel(gs) == HasPlayer(gs.players, gs.currentPlayerId)

\* The callback handlePot hands to setTimeout: saveToHistory is the one of the
\* render in which the ball was clicked, the updater runs on the state of now.
PotCommitResult(st, timer) ==
    [st EXCEPT !.history = saveToHistory(st.history, timer.saved),
               !.gs = PotUpdater(st.gs, timer.points)]

\* The same callback run with no delay, in the render of the click.
PotNowResult(st, points) ==
    IF ~st.mounted \/ ~ActivePanel(st.gs)
    THEN st
    ELSE PotCommitResult(st, [points |-> points, saved |-> st.gs])

OnMounted(st, res) == IF st.mounted THEN res ELSE st

----------------------------------------------------------------------------
(* State and actions. *)

NoRun == [id |-> -1, score |-> 0, break |-> 0, sum |-> 0]

Store == [gs |-> gameState, history |-> history, mounted |-> mounted]

Ids(ps) == {ps[i].id : i \in 1..Len(ps)}

\* Ids a handler is called with: those of the players, and one no player has.
IdInputs == Ids(gameState.players) \cup {MaxOf(Ids(gameState.players)) + 1}

Frame(ps, cur) == [players |-> ps, currentPlayerId |-> cur]

Scored(id, score, brk, rank) ==
    [NewPlayer(id) EXCEPT !.score = score, !.break = brk, !.rank = rank]

\* Match States a session reaches, each with an empty Undo Log and no pending
\* pot (request a pot, New Game, let the pot commit, Undo: the Match State of
\* the request is current again and the Undo Log is empty):
\*   the state after construction;
\*   player 1 after fourteen blacks;
\*   player 1 after a century, player 2 at the table after fourteen blacks, a
\*   third player added;
\*   a full table of eight.
StartStates ==
    { initialGameState,
      Frame(<<Scored(1, 98, 98, NoRank), NewPlayer(2)>>, 1),
      Frame(<<Scored(1, 105, 0, 1), Scored(2, 98, 98, NoRank), NewPlayer(3)>>, 2),
      Frame([i \in 1..MaxPlayers |-> NewPlayer(i)], 1) }

Init ==
    /\ gameState \in StartStates
    /\ history = <<>>
    /\ timers = <<>>
    /\ mounted = TRUE
    /\ last = [op |-> "init", arg |-> 0, pre |-> gameState, preHist |-> <<>>]
    /\ removed = {}
    /\ potRun = NoRun
    /\ sinceNewGame = {gameState}
    /\ sync = [gs |-> gameState, history |-> <<>>, mounted |-> TRUE]
    /\ budget = IF Len(gameState.players) = MaxPlayers THEN FullTableSteps ELSE MaxSteps

Called(op, arg) ==
    /\ mounted
    /\ budget > 0
    /\ budget' = budget - 1
    /\ last' = [op |-> op, arg |-> arg, pre |-> gameState, preHist |-> history]

\* The run of pots goes on for the player it is of, and starts anew for another.
RunAfterPot(gs, points) ==
    IF ~ActivePanel(gs)
    THEN potRun
    ELSE IF potRun.id = gs.currentPlayerId
         THEN [potRun EXCEPT !.sum = potRun.sum + points]
         ELSE LET p == At(gs.players, FindIndex(gs.players, gs.currentPlayerId))
              IN [id |-> p.id, score |-> p.score, break |-> p.break, sum |-> points]

Becomes(st) ==
    /\ gameState' = st.gs
    /\ history' = st.history
    /\ mounted' = st.mounted
    /\ sinceNewGame' = IF last'.op = "handleNewGame"
                       THEN {st.gs}
                       ELSE sinceNewGame \cup {st.gs}

handlePot(points) ==
    /\ Called("handlePot", points)
    /\ timers' = IF ActivePanel(gameState)
                 THEN Append(timers, [points |-> points, saved |-> gameState])
                 ELSE timers
    /\ sync' = PotNowResult(sync, points)
    /\ UNCHANGED <<gameState, history, mounted, removed, potRun, sinceNewGame>>

potTimeout ==
    /\ timers # <<>>
    /\ Called("potTimeout", Head(timers).points)
    /\ Becomes(PotCommitResult(Store, Head(timers)))
    /\ timers' = Tail(timers)
    /\ potRun' = RunAfterPot(gameState, Head(timers).points)
    /\ UNCHANGED <<removed, sync>>

handleFoul(foulValue) ==
    /\ Called("handleFoul", foulValue)
    /\ Becomes(FoulResult(Store, foulValue))
    /\ sync' = OnMounted(sync, FoulResult(sync, foulValue))
    /\ potRun' = NoRun
    /\ UNCHANGED <<timers, removed>>

handlePlayerSelect(selectedPlayerId) ==
    /\ Called("handlePlayerSelect", selectedPlayerId)
    /\ Becomes(SelectResult(Store, selectedPlayerId))
    /\ sync' = OnMounted(sync, SelectResult(sync, selectedPlayerId))
    /\ potRun' = NoRun
    /\ UNCHANGED <<timers, removed>>

handleUndo ==
    /\ Called("handleUndo", 0)
    /\ Becomes(UndoResult(Store))
    /\ sync' = OnMounted(sync, UndoResult(sync))
    /\ potRun' = NoRun
    /\ UNCHANGED <<timers, removed>>

handleNewGame ==
    /\ Called("handleNewGame", 0)
    /\ Becomes(NewGameResult(Store))
    /\ sync' = OnMounted(sync, NewGameResult(sync))
    /\ potRun' = NoRun
    /\ UNCHANGED <<timers, removed>>

handleAddPlayer ==
    /\ Called("handleAddPlayer", 0)
    /\ Becomes(AddResult(Store))
    /\ sync' = OnMounted(sync, AddResult(sync))
    /\ UNCHANGED <<timers, removed, potRun>>

handleRemovePlayer(idToRemove) ==
    /\ Called("handleRemovePlayer", idToRemove)
    /\ Becomes(RemoveResult(Store, idToRemove))
    /\ removed' = removed \cup
                     {gameState.players[i] : i \in {j \in 1..Len(gameState.players) :
                         gameState.players[j].id \notin Ids(gameState'.players)}}
    /\ sync' = OnMounted(sync, RemoveResult(sync, idToRemove))
    /\ UNCHANGED <<timers, potRun>>

handleNameChange(id, newName) ==
    /\ Called("handleNameChange", id)
    /\ Becomes(NameChangeResult(Store, id, newName))
    /\ sync' = OnMounted(sync, NameChangeResult(sync, id, newName))
    /\ UNCHANGED <<timers, removed, potRun>>

Next ==
    \/ \E points \in PotInputs : handlePot(points)
    \/ potTimeout
    \/ \E foulValue \in FoulInputs : handleFoul(foulValue)
    \/ \E id \in IdInputs : handlePlayerSelect(id)
    \/ handleUndo
    \/ handleNewGame
    \/ handleAddPlayer
    \/ \E id \in IdInputs : handleRemovePlayer(id)
    \/ \E id \in IdInputs, newName \in NameInputs : handleNameChange(id, newName)

Spec == Init /\ [][Next]_vars

----------------------------------------------------------------------------
(* Shape of the state. *)

TypeOK ==
    /\ \A i \in 1..Len(gameState.players) :
          /\ gameState.players[i].id \in Nat
          /\ gameState.players[i].score \in Nat
          /\ gameState.players[i].break \in Nat
          /\ gameState.players[i].rank \in Nat
    /\ PotInputs \subseteq BallValues
    /\ FoulInputs \subseteq FOUL_VALUES
    /\ budget \in 0..MaxSteps

----------------------------------------------------------------------------
(* What the handler that ran last did. *)

Ran(op) == last.op = op

Pushed == Len(history) = Len(last.preHist) + 1

\* A mutating operation other than New Game was applied: it recorded a snapshot.
Mutated ==
    /\ last.op \in {"potTimeout", "handleFoul", "handlePlayerSelect",
                    "handleAddPlayer", "handleRemovePlayer", "handleNameChange"}
    /\ Pushed

PlayerOf(gs, id) == At(gs.players, FindIndex(gs.players, id))

RanksOf(ps) == {ps[i].rank : i \in 1..Len(ps)} \ {NoRank}

----------------------------------------------------------------------------
\* C1: after every mutating operation other than New Game, the snapshot on top
\* of the Undo Log is the Match State of just before the operation, so that
\* Undo gives that Match State back; a pot committed after its delay included.
UndoInvertsLastAction ==
    Mutated =>
        /\ history = Append(last.preHist, last.pre)
        /\ UndoResult(Store).gs = last.pre

\* C2: once every requested pot has committed, the Match State and the Undo
\* Log are those of the store in which each pot committed when it was requested.
DelayChangesNothing ==
    (mounted /\ timers = <<>>) =>
        /\ gameState = sync.gs
        /\ history = sync.history

\* C3: there are at least 2 and at most 8 players in every reachable state.
PlayerCountInRange ==
    /\ Len(gameState.players) >= MinPlayers
    /\ Len(gameState.players) <= MaxPlayers

\* handleAddPlayer was called at 8 players, handleRemovePlayer has been refused
\* at 2 players before.
AddRefusedAtEight ==
    /\ Ran("handleAddPlayer")
    /\ Len(last.pre.players) = MaxPlayers
    /\ gameState = last.pre

\* C4: currentPlayerId is the id of exactly one of the players, in every
\* reachable state.
CurrentPlayerResolves ==
    Cardinality({i \in 1..Len(gameState.players) :
                    gameState.players[i].id = gameState.currentPlayerId}) = 1

Distinct(ps) ==
    \A i, j \in 1..Len(ps) :
        (i # j /\ ps[i].rank # NoRank) => ps[i].rank # ps[j].rank

Contiguous(ps) == RanksOf(ps) = 1..Cardinality(RanksOf(ps))

RankedPlayerRemoved == \E p \in removed : p.rank # NoRank

\* C5 as stated: the ranks held by the players in the match are exactly 1..k,
\* none held twice.
RanksAreOneToK ==
    /\ Distinct(gameState.players)
    /\ Contiguous(gameState.players)

\* C5, amended: no rank is held by two players in the match; the ranks held
\* are exactly 1..k as long as no ranked player has been removed; and a rank
\* a pot assigns is greater than every rank held when it is assigned.
RanksDistinctAndOrdered ==
    /\ Distinct(gameState.players)
    /\ ~RankedPlayerRemoved => Contiguous(gameState.players)
    /\ Ran("potTimeout") =>
          \A r \in RanksOf(gameState.players) \ RanksOf(last.pre.players) :
              \A q \in RanksOf(last.pre.players) : r > q

\* A pot has given a second player of the match a rank.
SecondRankAssigned ==
    /\ Ran("potTimeout")
    /\ RanksOf(last.pre.players) = {1}
    /\ RanksOf(gameState.players) = {1, 2}

\* The players that had a rank before the last handler ran, and are still in
\* the match, have the rank they had.
RanksKeptByLast ==
    \A i \in 1..Len(last.pre.players), j \in 1..Len(gameState.players) :
        LET p == last.pre.players[i]
            q == gameState.players[j]
        IN (p.rank # NoRank /\ q.id = p.id) => q.rank = p.rank

\* C6 as stated: short of New Game, no handler (Undo among them) changes or
\* clears a rank that has been assigned.
RankKeptUntilNewGame == ~Ran("handleNewGame") => RanksKeptByLast

\* C6, amended: no pot, foul, select, add, remove or rename changes or clears
\* a rank that has been assigned; Undo and New Game can.
RankKeptExceptUndo ==
    (~Ran("handleNewGame") /\ ~Ran("handleUndo")) => RanksKeptByLast

\* A ranked player has potted again.
RankedPlayerPotted ==
    /\ Ran("potTimeout")
    /\ ActivePanel(last.pre)
    /\ PlayerOf(last.pre, last.pre.currentPlayerId).rank # NoRank
    /\ gameState # last.pre

\* C7: handleAddPlayer never creates a player with the id of a player that
\* has been removed.
IdNeverReused ==
    (Ran("handleAddPlayer") /\ Len(gameState.players) > Len(last.pre.players)) =>
        gameState.players[Len(gameState.players)].id \notin {p.id : p \in removed}

\* The players of gs with the one at 0-based index i left out of the comparison.
SameBut(ps, qs, i) ==
    /\ Len(ps) = Len(qs)
    /\ \A k \in 1..Len(ps) : k # i + 1 => ps[k] = qs[k]

\* C8: a committed pot adds its points to the score and to the break of the
\* active player and changes nothing else but, possibly, that player's rank;
\* over a run of pots for one player, with no foul, select, new game or undo
\* in between, score and break have grown by the sum of the points potted.
PotAddsPoints ==
    /\ (Ran("potTimeout") /\ ActivePanel(last.pre)) =>
          LET i == FindIndex(last.pre.players, last.pre.currentPlayerId)
              p == At(last.pre.players, i)
              q == At(gameState.players, i)
          IN /\ gameState.currentPlayerId = last.pre.currentPlayerId
             /\ SameBut(last.pre.players, gameState.players, i)
             /\ q.score = p.score + last.arg
             /\ q.break = p.break + last.arg
             /\ q.id = p.id
             /\ q.name = p.name
    /\ (Ran("potTimeout") /\ ActivePanel(gameState)
           /\ potRun.id = gameState.currentPlayerId) =>
          LET q == PlayerOf(gameState, gameState.currentPlayerId)
          IN /\ q.score = potRun.score + potRun.sum
             /\ q.break = potRun.break + potRun.sum

\* Two pots in a row have been committed for the same player.
TwoPotsInARun ==
    /\ Ran("potTimeout")
    /\ potRun.id = gameState.currentPlayerId
    /\ potRun.sum > last.arg

\* C9: a committed pot gives the active player a rank exactly when the break
\* it leaves is at least 100 and the player has none; the rank given is 1 if
\* no player holds one and the highest rank held plus 1 otherwise; no other
\* rank changes.
PotAssignsNextRank ==
    (Ran("potTimeout") /\ ActivePanel(last.pre)) =>
        LET i == FindIndex(last.pre.players, last.pre.currentPlayerId)
            p == At(last.pre.players, i)
            q == At(gameState.players, i)
            held == RanksOf(last.pre.players)
        IN /\ SameBut(last.pre.players, gameState.players, i)
           /\ IF p.break + last.arg >= 100 /\ p.rank = NoRank
              THEN q.rank = IF held = {} THEN 1 ELSE MaxOf(held) + 1
              ELSE q.rank = p.rank

\* A pot has brought a break from below 100 to exactly 100 and the player got
\* the rank after the one already held.
RankAssignedAtHundred ==
    /\ Ran("potTimeout")
    /\ ActivePanel(last.pre)
    /\ PlayerOf(last.pre, last.pre.currentPlayerId).rank = NoRank
    /\ PlayerOf(gameState, last.pre.currentPlayerId).break = 100
    /\ PlayerOf(gameState, last.pre.currentPlayerId).rank = 2

\* The scenario of the claim: player 1 pots 4 four times, then a foul of 4.
FoulScenario ==
    LET four(gs) == PotUpdater(gs, 4)
        after == FoulUpdater(four(four(four(four(initialGameState)))), 4)
    IN /\ after.players[1].score = 16
       /\ after.players[1].break = 0
       /\ after.players[2].score = 4
       /\ after.currentPlayerId = 1

\* C10: a foul of v adds v to the score of the player after the current one,
\* in the order of the list and back to the first after the last, sets the
\* break of the current player to 0 and changes nothing else.
FoulGivesNextPlayer ==
    /\ FoulScenario
    /\ (Ran("handleFoul") /\ ActivePanel(last.pre)) =>
          LET n == Len(last.pre.players)
              i == FindIndex(last.pre.players, last.pre.currentPlayerId)
              j == (i + 1) % n
          IN /\ gameState.currentPlayerId = last.pre.currentPlayerId
             /\ Len(gameState.players) = n
             /\ \A k \in 0..(n - 1) :
                   At(gameState.players, k) =
                      IF k = j
                      THEN [At(last.pre.players, k) EXCEPT !.score = @ + last.arg]
                      ELSE IF k = i
                           THEN [At(last.pre.players, k) EXCEPT !.break = 0]
                           ELSE At(last.pre.players, k)

\* The last player of the list has fouled with a break running, and the first
\* one has the points.
FoulWrapsAround ==
    /\ Ran("handleFoul")
    /\ ActivePanel(last.pre)
    /\ FindIndex(last.pre.players, last.pre.currentPlayerId) = Len(last.pre.players) - 1
    /\ PlayerOf(last.pre, last.pre.currentPlayerId).break > 0
    /\ gameState.players[1].score = last.pre.players[1].score + last.arg

\* C11: handleAddPlayer at 8 players and handleRemovePlayer at 2 players
\* change neither the Match State nor the Undo Log.
CapacityRefusalKeepsAll ==
    (\/ Ran("handleAddPlayer") /\ Len(last.pre.players) = MaxPlayers
     \/ Ran("handleRemovePlayer") /\ Len(last.pre.players) = MinPlayers) =>
        /\ gameState = last.pre
        /\ history = last.preHist

\* handleRemovePlayer was called for one of two players, with a snapshot
\* already in the Undo Log.
RemoveRefusedAtTwo ==
    /\ Ran("handleRemovePlayer")
    /\ Len(last.pre.players) = MinPlayers
    /\ HasPlayer(last.pre.players, last.arg)
    /\ last.preHist # <<>>
    /\ Len(gameState.players) = MinPlayers

\* C12: every handler that adds a snapshot to the Undo Log leaves a Match
\* State that differs from the one before it.
LogGrowsOnlyOnChange == Pushed => gameState # last.pre

\* C13: handlePlayerSelect and handleNameChange with an id that no player has
\* leave players and currentPlayerId as they were.
UnknownIdChangesNothing ==
    (/\ Ran("handlePlayerSelect") \/ Ran("handleNameChange")
     /\ ~HasPlayer(last.pre.players, last.arg)) =>
        gameState = last.pre

\* C14: handleRemovePlayer with more than 2 players takes out exactly the
\* player with the id and keeps the others in order; when that player was the
\* active one, at index i, the player at index i of the new list is active,
\* the first one if i was the last index; otherwise the active player stays.
RemoveKeepsOrderAndTurn ==
    (/\ Ran("handleRemovePlayer")
     /\ Len(last.pre.players) > MinPlayers
     /\ HasPlayer(last.pre.players, last.arg)) =>
        LET ps == last.pre.players
            i == FindIndex(ps, last.arg)
            rest == [k \in 1..(Len(ps) - 1) |-> IF k <= i THEN ps[k] ELSE ps[k + 1]]
        IN /\ mounted
           /\ gameState.players = rest
           /\ gameState.currentPlayerId =
                 IF last.pre.currentPlayerId # last.arg
                 THEN last.pre.currentPlayerId
                 ELSE IF i = Len(ps) - 1 THEN rest[1].id ELSE rest[i + 1].id

\* The active player, last of the list, was removed and the turn went to the
\* first player.
ActiveLastPlayerRemoved ==
    /\ Ran("handleRemovePlayer")
    /\ Len(last.pre.players) > MinPlayers
    /\ last.pre.currentPlayerId = last.arg
    /\ FindIndex(last.pre.players, last.arg) = Len(last.pre.players) - 1
    /\ gameState.currentPlayerId = last.pre.players[1].id

\* C15: handleNewGame sets score and break to 0 and rank to none for every
\* player, keeps the players, their order, ids and names, and makes the first
\* player of the list the active one.
NewGameResetsScores ==
    Ran("handleNewGame") =>
        /\ Len(gameState.players) = Len(last.pre.players)
        /\ \A k \in 1..Len(gameState.players) :
              /\ gameState.players[k].id = last.pre.players[k].id
              /\ gameState.players[k].name = last.pre.players[k].name
              /\ gameState.players[k].score = 0
              /\ gameState.players[k].break = 0
              /\ gameState.players[k].rank = NoRank
        /\ gameState.currentPlayerId = last.pre.players[1].id

\* A new game was started with a ranked player in the match and another than
\* the first player at the table.
NewGameFromRunningFrame ==
    /\ Ran("handleNewGame")
    /\ RanksOf(last.pre.players) # {}
    /\ last.pre.currentPlayerId # last.pre.players[1].id
    /\ \E k \in 1..Len(last.pre.players) : last.pre.players[k].break > 0

\* C16: handleNewGame empties the Undo Log, and handleUndo right after it
\* leaves the Match State as it is.
NewGameClearsLog ==
    Ran("handleNewGame") =>
        /\ history = <<>>
        /\ UndoResult(Store).gs = gameState

\* A new game was started with snapshots in the Undo Log.
NewGameWithLog ==
    /\ Ran("handleNewGame")
    /\ Len(last.preHist) >= 2

\* C17: score and break of every player are non-negative integers, and the
\* break is at most the score.
BreakWithinScore ==
    \A k \in 1..Len(gameState.players) :
        /\ gameState.players[k].score \in Nat
        /\ gameState.players[k].break \in Nat
        /\ gameState.players[k].break <= gameState.players[k].score

\* A player has potted after a foul: the break is running and below the score.
BreakBelowScore ==
    /\ Ran("potTimeout")
    /\ \E k \in 1..Len(gameState.players) :
          /\ gameState.players[k].break > 0
          /\ gameState.players[k].break < gameState.players[k].score

\* C18: handleUndo with an empty Undo Log changes nothing; otherwise the most
\* recent snapshot becomes the Match State and the Undo Log loses that one
\* entry and keeps the others; handleUndo records nothing.
UndoPopsOneSnapshot ==
    Ran("handleUndo") =>
        IF last.preHist = <<>>
        THEN gameState = last.pre /\ history = <<>>
        ELSE /\ gameState = last.preHist[Len(last.preHist)]
             /\ history = SubSeq(last.preHist, 1, Len(last.preHist) - 1)

\* An undo with two snapshots recorded, the older one of another Match State.
UndoWithTwoSnapshots ==
    /\ Ran("handleUndo")
    /\ Len(last.preHist) = 2
    /\ last.preHist[1] # last.preHist[2]
    /\ history = <<last.preHist[1]>>

\* C19: handlePlayerSelect with the id of the active player changes neither
\* the Match State nor the Undo Log; with the id of another player it sets the
\* break of the player that was active to 0 and currentPlayerId to the id, and
\* leaves every score, every rank and every other break.
SelectResetsBreakOnly ==
    (Ran("handlePlayerSelect") /\ HasPlayer(last.pre.players, last.arg)) =>
        IF last.arg = last.pre.currentPlayerId
        THEN gameState = last.pre /\ history = last.preHist
        ELSE /\ gameState.currentPlayerId = last.arg
             /\ Len(gameState.players) = Len(last.pre.players)
             /\ \A k \in 1..Len(gameState.players) :
                   gameState.players[k] =
                      IF last.pre.players[k].id = last.pre.currentPlayerId
                      THEN [last.pre.players[k] EXCEPT !.break = 0]
                      ELSE last.pre.players[k]

\* The turn went to another player while a break was running.
TurnTakenFromBreak ==
    /\ Ran("handlePlayerSelect")
    /\ HasPlayer(last.pre.players, last.arg)
    /\ last.arg # last.pre.currentPlayerId
    /\ ActivePanel(last.pre)
    /\ PlayerOf(last.pre, last.pre.currentPlayerId).break > 0
    /\ PlayerOf(gameState, last.pre.currentPlayerId).break = 0

\* C20: every snapshot in the Undo Log is a Match State that was current
\* since the last new game, a pot requested before it and committed after it
\* included.
SnapshotsSinceNewGame ==
    \A k \in 1..Len(history) : history[k] \in sinceNewGame

====
